---- MODULE Spec2Model ----
(***************************************************************************)
(* Unit decommitment driver of pylon (src/pylon/ud_opf.py, UDOPF.solve)    *)
(* over the OPF routine whose result handling is                           *)
(* DCOPFRoutine._update_solution_data (src/pylon/dc_opf.py).               *)
(*                                                                         *)
(* Generators are the indices 1..NG in the order of case.all_generators;   *)
(* case.online_generators is the sub-list of those whose online flag is    *)
(* set, in the same order.  Powers and costs are small integers, quotients *)
(* of them are compared exactly (the floats of the program are the         *)
(* correctly rounded quotients, so equal rationals are equal floats).      *)
(* Shadow prices are integers in units of 1e-5, so that round(mu, 4) is a  *)
(* rounding to a multiple of 10.                                           *)
(*                                                                         *)
(* One run of UDOPF.solve is one behaviour: pc is the position in solve,   *)
(* every call routine(case) is the first thing its action does, so the     *)
(* state in which pc names a call is the state the OPF is solved on.       *)
(* pc = "returned" is the return of solve (result is what it returned),    *)
(* pc = "raised" an exception that left it.  The generator attributes are  *)
(* floats, so "/" at line 147 is the true quotient and raises              *)
(* ZeroDivisionError on a zero divisor.                                    *)
(*                                                                         *)
(* The module holds one specification for each routine:                    *)
(*   Spec         one run of UDOPF.solve, the OPF answering freely;        *)
(*   SpecLive     Spec with the next statement always run in the end;      *)
(*   SpecFairMax  one call of fair_max (ud_opf.py);                        *)
(*   SpecOrder    UDOPF.solve under every order of a stage's candidates,   *)
(*                the OPF being a function of the online flags;            *)
(*   SpecDC       one call of DCOPFRoutine (dc_opf.py);                    *)
(*   SpecIPM      one call of pdipm (pdipm.py);                            *)
(*   SpecStep     the slack and the multiplier of pdipm through the        *)
(*                initialisation and one update, with exact fractions;     *)
(*   SpecInj      the phase shift injections of DCOPFRoutine.              *)
(* The variables of the routines a specification is not about keep their   *)
(* idle values.                                                            *)
(***************************************************************************)
EXTENDS Integers, Sequences, FiniteSets, TLC

\* Number of generators of the case.
NG == 2
\* Largest minimum output p_min of a generator.
MaxPMin == 1
\* Largest total fixed load sum(l.p).
MaxLoad == 2
\* Largest objective value routine.f an OPF solve reports.
MaxCost == 3

Gen == 1..NG

\* Shadow prices a solve leaves on an online generator, in units of 1e-5.  The
\* interior-point multipliers are small and positive where a bound is not
\* binding (ud_opf.py:206-207): 0.00004 rounds to 0.0, 0.00006 to 0.0001.
MuVals == {4, 6}

VARIABLES
    \* the case: attributes the driver only reads
    is_load,        \* g.is_load
    p_min,          \* g.p_min
    cost_p_min,     \* g.total_cost(g.p_min)
    load_p,         \* sum([l.p for l in case.online_loads])
    \* the case: fields written during solve
    online,         \* g.online
    mu_p_min,       \* g.mu_p_min
    \* locals of UDOPF.solve
    pc,
    online_nl,      \* the local list "online": online non-load generators
    load_capacity,
    p_min_tot,
    i_stage,
    success,
    routine_f,      \* routine.f
    overall_online,
    overall_cost,
    stage_online,
    stage_cost,
    candidates,
    ci,             \* position of the for loop in candidates
    done,
    result,         \* what solve returned: "none" while running
    \* history
    baseline_cost,  \* routine.f of the baseline solve
    prepass_online, \* online flags when the pre-pass loop was left
    last_solve,     \* the last call routine(case): site, flags, status
    trials,         \* the trial solves of the current stage, in order, with
                    \* the cost of those that succeeded
    main_stages,    \* the stages of the main loop entered (line 216)
    \* one call of fair_max
    fm_pc,          \* "call" before the call, then "returned" or "raised"
    fm_x,           \* the argument x
    fm_i,           \* the positions in the list i that random.choice draws from
    fm_idx,         \* the returned idx (positions count from 1)
    fm_value,       \* the returned value
    \* UDOPF.solve under every order of the candidates of a stage
    ord_pc,         \* "run" before the runs, then "done"
    ord_opf,        \* the OPF as a function of the online flags
    ord_finals,     \* what the runs ended with, one run for every order
    \* the network a DC OPF is solved on
    bus_slack,      \* v.slack
    bus_guess,      \* v.v_phase_guess, degrees
    gen_bus,        \* the bus generator g is attached to
    gen_online,     \* g.online
    gen_model,      \* g.cost_model
    net_fields,     \* the result fields of buses, branches and generators
    \* one call of DCOPFRoutine
    dc_pc,          \* the next step of __call__, "returned" or "raised"
    dc_error,       \* the exception that left __call__
    dc_solver_type, \* self._solver_type
    dc_x,           \* self._x
    dc_ref,         \* self._aa_ref and self._bb_ref
    dc_blocks,      \* the constraint blocks built, with their column counts
    dc_qp_calls,    \* the calls of the QP solver
    dc_status,      \* solution["status"] of the returned solution
    dc_index,       \* what the generator-indexed entries stand for: the bus
                    \* row of every generator column of the incidence
                    \* matrix, the generator of every row of the limits, of
                    \* every cost entry and of every value written back
    \* one call of pdipm
    ip_ll,          \* ll = [xmin; l], a bound for every row of [I; A]
    ip_uu,          \* uu = [xmax; u]
    ip_max_it,      \* max_it
    ip_step_control,
    ip_nx,          \* nx, the length of x0: the rows of [I; A] that are
                    \* variable bounds
    ip_pc,          \* the next step of pdipm, "returned" or "raised"
    ip_error,       \* the exception that left pdipm
    ip_part,        \* ieq, igt, ilt, ibx and the rows of Ai
    ip_i,           \* the iteration counter i
    ip_converged,   \* converged
    ip_above,       \* the residuals not below their tolerance when last
                    \* evaluated
    ip_fail,        \* the numerical failure that broke the loop
    ip_info,        \* the returned info
    ip_output,      \* the returned output
    ip_lam,         \* lam_lin when pdipm returns
    ip_mu,          \* mu_lin when pdipm returns
    ip_lmbda,       \* the returned multipliers
    \* the slack z and the multiplier mu of pdipm, with exact fractions
    sl_g,           \* g, the inequality residuals at x0
    sl_z,           \* z
    sl_mu,          \* mu
    sl_gamma,       \* gamma
    sl_dz,          \* dz of the update made last
    sl_dmu,         \* dmu of the update made last
    sl_alphap,      \* alphap of the update made last
    sl_alphad,      \* alphad of the update made last
    sl_i,           \* the updates made
    sl_pc,          \* "init", "loop", "updated" or "raised"
    sl_error,       \* the exception that ended the step
    \* the phase shift injections of DCOPFRoutine
    br_branches,    \* case.branches: online, x, phase_shift and the two
                    \* end buses of every branch
    br_pc,          \* "source", "bus" or "done"
    br_source_inj,  \* _theta_inj_source
    br_bus_inj      \* _theta_inj_bus

caseVars == <<is_load, p_min, cost_p_min, load_p>>
locals == <<online_nl, load_capacity, p_min_tot, i_stage, success, routine_f,
            overall_online, overall_cost, stage_online, stage_cost,
            candidates, ci, done>>
history == <<baseline_cost, prepass_online, last_solve, trials,
            main_stages>>
fmVars == <<fm_pc, fm_x, fm_i, fm_idx, fm_value>>
\* the state of the routines other than UDOPF.solve
ordVars == <<ord_pc, ord_opf, ord_finals>>
netVars == <<bus_slack, bus_guess, gen_bus, gen_online, gen_model>>
dcVars == <<netVars, net_fields, dc_pc, dc_error, dc_solver_type, dc_x, dc_ref,
            dc_blocks, dc_qp_calls, dc_status, dc_index>>
ipArgs == <<ip_ll, ip_uu, ip_max_it, ip_step_control, ip_nx>>
ipVars == <<ipArgs, ip_pc, ip_error, ip_part, ip_i, ip_converged, ip_above,
            ip_fail, ip_info, ip_output, ip_lam, ip_mu, ip_lmbda>>
slVars == <<sl_g, sl_z, sl_mu, sl_gamma, sl_dz, sl_dmu, sl_alphap, sl_alphad,
            sl_i, sl_pc, sl_error>>
brVars == <<br_branches, br_pc, br_source_inj, br_bus_inj>>
otherVars == <<fmVars, ordVars, dcVars, ipVars, slVars, brVars>>
vars == <<caseVars, online, mu_p_min, pc, locals, result, history, otherVars>>

----------------------------------------------------------------------------
(* Helpers *)

RECURSIVE SumOver(_, _)
SumOver(f, S) ==
    IF S = {} THEN 0
    ELSE LET g == CHOOSE x \in S : TRUE IN f[g] + SumOver(f, S \ {g})

\* The sub-sequence of 1..NG whose elements satisfy keep, in index order
\* (a list comprehension over case.all_generators).
RECURSIVE ListFrom(_, _)
ListFrom(keep, n) ==
    IF n = 0 THEN <<>>
    ELSE IF n \in keep THEN Append(ListFrom(keep, n - 1), n)
    ELSE ListFrom(keep, n - 1)

Range(s) == {s[i] : i \in 1..Len(s)}

\* a / b <= c / d for non-zero b, d
FracLeq(a, b, c, d) == a * b * d * d <= c * d * b * b
FracEq(a, b, c, d) == a * d = c * b

----------------------------------------------------------------------------
(* fair_max, src/pylon/ud_opf.py:276-289.  x is a non-empty sequence of    *)
(* quotients <<numerator, denominator>> with non-zero denominators.        *)

\* line 284 without the filter "if v == value"
NoFilter(x, k) == TRUE

\* v == value for the element at position k, line 284
IsMaxAt(x, k) ==
    \A j \in 1..Len(x) : FracLeq(x[j][1], x[j][2], x[k][1], x[k][2])

\* x.index(v): the first position holding a value equal to v
Index(x, v) ==
    CHOOSE k \in 1..Len(x) :
        /\ FracEq(x[k][1], x[k][2], v[1], v[2])
        /\ \A j \in 1..(k - 1) : ~FracEq(x[j][1], x[j][2], v[1], v[2])

\* i = [x.index(v) for v in x if v == value]; the positions random.choice(i)
\* can return
fair_max(x) == {Index(x, x[k]) : k \in {j \in 1..Len(x) : IsMaxAt(x, j)}}

----------------------------------------------------------------------------
(* The OPF routine: routine(case) and routine.f.  A solve either fails and *)
(* writes nothing to the case, or succeeds with a shadow price for every   *)
(* online generator.  routine.f is the objective value the solver ended    *)
(* with, whatever the status.                                              *)

OPFOutcomes(on) ==
    {[ok |-> FALSE, f |-> c, mu |-> [g \in Gen |-> 0]] : c \in 1..MaxCost} \cup
    {[ok |-> TRUE, f |-> c, mu |-> m] :
        c \in 1..MaxCost,
        m \in {mm \in [Gen -> MuVals \cup {0}] :
                  \A g \in Gen : mm[g] = 0 <=> ~on[g]}}

\* _update_solution_data: the inequality multipliers go to the online
\* generators, offline generators get zeroed multipliers.
UpdateSolutionData(on, out) == [g \in Gen |-> IF on[g] THEN out.mu[g] ELSE 0]

\* no rounding of the shadow price
NotRounded(m) == m

\* round(mu, 4) in units of 1e-5: half away from zero, to a multiple of 10
Round4(m) ==
    IF m >= 0 THEN ((m + 5) \div 10) * 10 ELSE 0 - (((0 - m) + 5) \div 10) * 10

\* for i, generator in enumerate(case.all_generators):
\*     generator.online = flags[i]
Activate(flags) == [g \in Gen |-> flags[g]]

\* [g.online for g in case.all_generators]
OnlineFlags(on) == [g \in Gen |-> on[g]]

\* lines 208-209
Candidates(on, mu) ==
    ListFrom({g \in Gen : on[g] /\ Round4(mu[g]) > 0 /\ p_min[g] > 0}, NG)

\* lines 224-228 without the restore of lines 224-225
TrialFlagsNoRestore(best, c) == [online EXCEPT ![c] = FALSE]

\* lines 224-228 with every generator switched on before the shutdown
TrialFlagsFromAll(best, c) == [[g \in Gen |-> TRUE] EXCEPT ![c] = FALSE]

\* lines 224-228 without the shutdown of line 228
TrialFlagsKeepOnline(best, c) == Activate(best)

\* lines 224-228: the flags a trial of candidate c is solved on
TrialFlags(best, c) == [Activate(best) EXCEPT ![c] = FALSE]

\* line 237 with "<=" for "<"
ImprovesOrEqual(ok, f, best) == ok /\ f <= best

\* line 237 without the test of success
ImprovesUnchecked(ok, f, best) == f < best

\* line 237 comparing with stage_cost instead of overall_cost
ImprovesOnStage(ok, f, best) == ok /\ f < stage_cost

\* line 237: success and (routine.f < overall_cost)
Improves(ok, f, best) == ok /\ f < best

\* line 181 with the check left out
BaselineUnchecked(ok) == FALSE

\* line 181: if not success
BaselineFailed(ok) == ~ok

\* lines 259-260 left out: the flags stay as the loop left them
FinalFlagsKept(cur) == cur

\* lines 259-260: the flags the final solve is run on
FinalFlags(cur) == Activate(overall_online)

----------------------------------------------------------------------------
(* The routines that are not running in a specification *)

\* no case is loaded
CaseIdle ==
    /\ is_load = [g \in Gen |-> FALSE]
    /\ p_min = [g \in Gen |-> 0]
    /\ cost_p_min = [g \in Gen |-> 0]
    /\ load_p = 0

\* UDOPF.solve is not running
DriverIdle ==
    /\ online = [g \in Gen |-> FALSE]
    /\ mu_p_min = [g \in Gen |-> 0]
    /\ pc = "idle"
    /\ online_nl = <<>>
    /\ load_capacity = 0
    /\ p_min_tot = 0
    /\ i_stage = 0
    /\ success = FALSE
    /\ routine_f = 0
    /\ overall_online = [g \in Gen |-> FALSE]
    /\ overall_cost = 0
    /\ stage_online = [g \in Gen |-> FALSE]
    /\ stage_cost = 0
    /\ candidates = <<>>
    /\ ci = 0
    /\ done = FALSE
    /\ result = "none"
    /\ baseline_cost = 0
    /\ prepass_online = [g \in Gen |-> FALSE]
    /\ last_solve = [site |-> "none", on |-> [g \in Gen |-> FALSE],
                     ok |-> FALSE]
    /\ trials = <<>>
    /\ main_stages = 0

SolveIdle == CaseIdle /\ DriverIdle

solveVars == <<caseVars, online, mu_p_min, pc, locals, result, history>>

\* fair_max is not being called
FairMaxIdle ==
    /\ fm_pc = "idle"
    /\ fm_x = <<>>
    /\ fm_i = {}
    /\ fm_idx = 0
    /\ fm_value = <<0, 1>>

\* What a result field holds before a solve writes it
Previous == [f \in {"v_phase", "v_amplitude", "p", "p_source", "p_lambda",
                    "mu_p_min", "mu_p_max"} |-> "previous"]

\* DCOPFRoutine is not being called
DCIdle ==
    /\ bus_slack = <<>>
    /\ bus_guess = <<>>
    /\ gen_bus = <<>>
    /\ gen_online = <<>>
    /\ gen_model = <<>>
    /\ net_fields = Previous
    /\ dc_pc = "idle"
    /\ dc_error = "none"
    /\ dc_solver_type = "linear"
    /\ dc_x = <<>>
    /\ dc_ref = [cols |-> 0, nz |-> {}, b |-> 0]
    /\ dc_blocks = {}
    /\ dc_qp_calls = 0
    /\ dc_status = "none"
    /\ dc_index = [incidence |-> <<>>, limits |-> <<>>, cost |-> <<>>,
                   written |-> <<>>]

\* pdipm has computed nothing yet
IPMFresh ==
    /\ ip_error = "none"
    /\ ip_part = [ieq |-> <<>>, igt |-> <<>>, ilt |-> <<>>, ibx |-> <<>>,
                  Ai |-> <<>>]
    /\ ip_i = 0
    /\ ip_converged = FALSE
    /\ ip_above = {}
    /\ ip_fail = "none"
    /\ ip_info = FALSE
    /\ ip_output = [iterations |-> 0, residuals |-> {}]
    /\ ip_lam = <<>>
    /\ ip_mu = <<>>
    /\ ip_lmbda = [mu_l |-> <<>>, mu_u |-> <<>>, lower |-> <<>>,
                   upper |-> <<>>]

\* no phase shift injection is being built
InjIdle ==
    /\ br_branches = <<>>
    /\ br_pc = "idle"
    /\ br_source_inj = <<>>
    /\ br_bus_inj = <<>>

\* z and mu of pdipm are not being followed
StepIdle ==
    /\ sl_g = <<>>
    /\ sl_z = <<>>
    /\ sl_mu = <<>>
    /\ sl_gamma = <<0, 1>>
    /\ sl_dz = <<>>
    /\ sl_dmu = <<>>
    /\ sl_alphap = <<0, 1>>
    /\ sl_alphad = <<0, 1>>
    /\ sl_i = 0
    /\ sl_pc = "idle"
    /\ sl_error = "none"

\* pdipm is not being called
IPMIdle ==
    /\ ip_ll = <<>>
    /\ ip_uu = <<>>
    /\ ip_max_it = 0
    /\ ip_step_control = FALSE
    /\ ip_nx = 0
    /\ ip_pc = "idle"
    /\ IPMFresh

\* no comparison of candidate orders is being made
OrderIdle ==
    /\ ord_pc = "idle"
    /\ ord_opf = <<>>
    /\ ord_finals = {}

----------------------------------------------------------------------------
(* The cases solve is run on *)

GenKinds ==
    {[is_load |-> TRUE, p_min |-> 0 - 1, cost |-> 0]} \cup
    {[is_load |-> FALSE, p_min |-> 0, cost |-> 0]} \cup
    {[is_load |-> FALSE, p_min |-> p, cost |-> c] :
        p \in 1..MaxPMin, c \in {1, 2}}

Init ==
    /\ \E k \in [Gen -> GenKinds] :
        /\ is_load = [g \in Gen |-> k[g].is_load]
        /\ p_min = [g \in Gen |-> k[g].p_min]
        /\ cost_p_min = [g \in Gen |-> k[g].cost]
    /\ load_p \in 0..MaxLoad
    /\ online \in [Gen -> BOOLEAN]
    /\ mu_p_min = [g \in Gen |-> 0]
    /\ pc = "begin"
    /\ online_nl = <<>>
    /\ load_capacity = 0
    /\ p_min_tot = 0
    /\ i_stage = 0
    /\ success = FALSE
    /\ routine_f = 0
    /\ overall_online = [g \in Gen |-> FALSE]
    /\ overall_cost = 0
    /\ stage_online = [g \in Gen |-> FALSE]
    /\ stage_cost = 0
    /\ candidates = <<>>
    /\ ci = 0
    /\ done = FALSE
    /\ result = "none"
    /\ baseline_cost = 0
    /\ prepass_online = [g \in Gen |-> FALSE]
    /\ last_solve = [site |-> "none", on |-> [g \in Gen |-> FALSE], ok |-> FALSE]
    /\ trials = <<>>
    /\ main_stages = 0
    /\ FairMaxIdle
    /\ OrderIdle
    /\ DCIdle
    /\ IPMIdle
    /\ StepIdle
    /\ InjIdle

----------------------------------------------------------------------------
(* UDOPF.solve *)

\* lines 129 and 159: [g for g in case.online_generators if not g.is_load]
NonLoad(on) == ListFrom({g \in Gen : on[g] /\ ~is_load[g]}, NG)

\* lines 138 and 160
PMinTot(l) == SumOver(p_min, Range(l))

\* lines 130-135 with the dispatchable loads taken from all generators
LoadCapacityOfAll(on) == load_p - SumOver(p_min, {g \in Gen : is_load[g]})

\* lines 130-135: sum([l.p for l in loads]) - vload_capacity
LoadCapacity(on) ==
    load_p - SumOver(p_min, {g \in Gen : on[g] /\ is_load[g]})

\* lines 114-138
Begin ==
    /\ pc = "begin"
    /\ online_nl' = NonLoad(online)
    /\ load_capacity' = LoadCapacity(online)
    /\ p_min_tot' = PMinTot(NonLoad(online))
    /\ pc' = "prepass"
    /\ UNCHANGED otherVars
    /\ UNCHANGED <<caseVars, online, mu_p_min, i_stage, success, routine_f,
                   overall_online, overall_cost, stage_online, stage_cost,
                   candidates, ci, done, result, history>>

\* avg_pmin_cost, line 147
AvgPMinCost(l) == [k \in 1..Len(l) |-> <<cost_p_min[l[k]], p_min[l[k]]>>]

\* one iteration of the pre-pass loop, lines 142-160
PrePass ==
    /\ pc = "prepass"
    /\ p_min_tot > load_capacity
    /\ i_stage' = i_stage + 1
    /\ IF \E k \in 1..Len(online_nl) : p_min[online_nl[k]] = 0
       THEN \* ZeroDivisionError at line 147
            /\ pc' = "raised"
            /\ UNCHANGED <<online, online_nl, p_min_tot>>
       ELSE IF online_nl = <<>>
       THEN \* max() of an empty list, line 283
            /\ pc' = "raised"
            /\ UNCHANGED <<online, online_nl, p_min_tot>>
       ELSE \E g_idx \in fair_max(AvgPMinCost(online_nl)) :
            LET generator == online_nl[g_idx]
                on2 == [online EXCEPT ![generator] = FALSE]
            IN  /\ online' = on2
                /\ online_nl' = NonLoad(on2)
                /\ p_min_tot' = PMinTot(NonLoad(on2))
                /\ pc' = "prepass"
    /\ UNCHANGED otherVars
    /\ UNCHANGED <<caseVars, mu_p_min, load_capacity, success, routine_f,
                   overall_online, overall_cost, stage_online, stage_cost,
                   candidates, ci, done, result, history>>

\* the pre-pass loop is left, lines 142 and 162-177
PrePassExit ==
    /\ pc = "prepass"
    /\ ~(p_min_tot > load_capacity)
    /\ pc' = "baseline"
    /\ prepass_online' = online
    /\ UNCHANGED otherVars
    /\ UNCHANGED <<caseVars, online, mu_p_min, locals, result,
                   baseline_cost, last_solve, trials, main_stages>>

\* the baseline solve, lines 179-195
Baseline ==
    /\ pc = "baseline"
    /\ \E out \in OPFOutcomes(online) :
        /\ success' = out.ok
        /\ routine_f' = out.f
        /\ last_solve' = [site |-> "baseline", on |-> online, ok |-> out.ok]
        /\ IF BaselineFailed(out.ok)
           THEN /\ result' = "False"
                /\ pc' = "returned"
                /\ UNCHANGED <<mu_p_min, overall_online, overall_cost,
                               stage_online, stage_cost, baseline_cost>>
           ELSE /\ mu_p_min' = UpdateSolutionData(online, out)
                /\ overall_online' = OnlineFlags(online)
                /\ overall_cost' = out.f
                /\ stage_online' = OnlineFlags(online)
                /\ stage_cost' = out.f
                /\ baseline_cost' = out.f
                /\ result' = result
                /\ pc' = "stage"
    /\ UNCHANGED otherVars
    /\ UNCHANGED <<caseVars, online, online_nl, load_capacity, p_min_tot,
                   i_stage, candidates, ci, done, prepass_online, trials,
                   main_stages>>

\* the head of the main loop, lines 198-231 (no candidates: lines 259-260)
StageBegin ==
    /\ pc = "stage"
    /\ LET on1 == Activate(stage_online)
           cs == Candidates(on1, mu_p_min)
       IN  /\ candidates' = cs
           /\ trials' = <<>>
           /\ IF cs = <<>>
              THEN /\ online' = FinalFlags(on1)
                   /\ pc' = "final"
                   /\ UNCHANGED <<done, i_stage, ci, main_stages>>
              ELSE /\ done' = TRUE
                   /\ i_stage' = i_stage + 1
                   /\ main_stages' = main_stages + 1
                   /\ ci' = 1
                   /\ online' = TrialFlags(stage_online, cs[1])
                   /\ pc' = "trial"
    /\ UNCHANGED otherVars
    /\ UNCHANGED <<caseVars, mu_p_min, online_nl, load_capacity, p_min_tot,
                   success, routine_f, overall_online, overall_cost,
                   stage_online, stage_cost, result, baseline_cost,
                   prepass_online, last_solve>>

\* one trial solve and the step to the next candidate, lines 234-243 and
\* 219-231
Trial ==
    /\ pc = "trial"
    /\ \E out \in OPFOutcomes(online) :
        /\ success' = out.ok
        /\ routine_f' = out.f
        /\ last_solve' = [site |-> "trial", on |-> online, ok |-> out.ok]
        /\ trials' = Append(trials,
                        [candidate |-> candidates[ci], ok |-> out.ok,
                         f |-> IF out.ok THEN out.f ELSE 0])
        /\ mu_p_min' = IF out.ok THEN UpdateSolutionData(online, out)
                       ELSE mu_p_min
        /\ IF Improves(out.ok, routine_f', overall_cost)
           THEN /\ overall_online' = OnlineFlags(online)
                /\ overall_cost' = routine_f'
                /\ done' = FALSE
           ELSE UNCHANGED <<overall_online, overall_cost, done>>
    /\ IF ci < Len(candidates)
       THEN /\ ci' = ci + 1
            /\ online' = TrialFlags(stage_online, candidates[ci + 1])
            /\ pc' = "trial"
       ELSE /\ pc' = "stage_end"
            /\ UNCHANGED <<ci, online>>
    /\ UNCHANGED otherVars
    /\ UNCHANGED <<caseVars, online_nl, load_capacity, p_min_tot, i_stage,
                   stage_online, stage_cost, candidates, result,
                   baseline_cost, prepass_online, main_stages>>

\* the end of a stage, lines 245-256 (break: lines 259-260)
StageEnd ==
    /\ pc = "stage_end"
    /\ IF done
       THEN /\ online' = FinalFlags(online)
            /\ pc' = "final"
            /\ UNCHANGED <<stage_online, stage_cost>>
       ELSE /\ stage_online' = overall_online
            /\ stage_cost' = overall_cost
            /\ pc' = "stage"
            /\ UNCHANGED online
    /\ UNCHANGED otherVars
    /\ UNCHANGED <<caseVars, mu_p_min, online_nl, load_capacity, p_min_tot,
                   i_stage, success, routine_f, overall_online, overall_cost,
                   candidates, ci, done, result, history>>

\* the final solve and the return, lines 262-270
Final ==
    /\ pc = "final"
    /\ \E out \in OPFOutcomes(online) :
        /\ success' = out.ok
        /\ routine_f' = out.f
        /\ last_solve' = [site |-> "final", on |-> online, ok |-> out.ok]
        /\ mu_p_min' = IF out.ok THEN UpdateSolutionData(online, out)
                       ELSE mu_p_min
    /\ result' = "True"
    /\ pc' = "returned"
    /\ UNCHANGED otherVars
    /\ UNCHANGED <<caseVars, online, online_nl, load_capacity, p_min_tot,
                   i_stage, overall_online, overall_cost, stage_online,
                   stage_cost, candidates, ci, done, baseline_cost,
                   prepass_online, trials, main_stages>>

Next ==
    \/ Begin
    \/ PrePass
    \/ PrePassExit
    \/ Baseline
    \/ StageBegin
    \/ Trial
    \/ StageEnd
    \/ Final

Spec == Init /\ [][Next]_vars

\* solve is one sequential call: the interpreter runs the next statement as
\* long as there is one, so a step that stays possible is eventually taken
SpecLive == Init /\ [][Next]_vars /\ WF_vars(Next)

----------------------------------------------------------------------------
(* One call of fair_max, src/pylon/ud_opf.py:276-289, on a list of         *)
(* quotients: the floats n / d, equal exactly when the rationals are.      *)

\* Longest list fair_max is called on.
MaxLen == 3
\* Largest numerator of an element of the list.
MaxNum == 2

Quotients == {<<n, d>> : n \in 0..MaxNum, d \in 1..2}

\* the sequences over S of length 0..n
RECURSIVE SeqsUpTo(_, _)
SeqsUpTo(S, n) ==
    IF n = 0 THEN {<<>>}
    ELSE LET shorter == SeqsUpTo(S, n - 1)
         IN  shorter \cup
             {Append(q, e) : q \in {r \in shorter : Len(r) = n - 1}, e \in S}

FairMaxInit ==
    /\ fm_pc = "call"
    /\ fm_x \in SeqsUpTo(Quotients, MaxLen)
    /\ fm_i = {}
    /\ fm_idx = 0
    /\ fm_value = <<0, 1>>
    /\ SolveIdle
    /\ OrderIdle
    /\ DCIdle
    /\ IPMIdle
    /\ StepIdle
    /\ InjIdle

\* value = max(x), line 283: the first element no other exceeds
MaxValue(x) ==
    x[CHOOSE k \in 1..Len(x) :
         /\ \A j \in 1..Len(x) : FracLeq(x[j][1], x[j][2], x[k][1], x[k][2])
         /\ \A j \in 1..(k - 1) :
               ~FracLeq(x[k][1], x[k][2], x[j][1], x[j][2])]

\* the call, lines 283-289; max() of an empty list raises ValueError
FairMaxCall ==
    /\ fm_pc = "call"
    /\ IF fm_x = <<>>
       THEN /\ fm_pc' = "raised"
            /\ UNCHANGED <<fm_i, fm_idx, fm_value>>
       ELSE /\ fm_value' = MaxValue(fm_x)
            /\ fm_i' = fair_max(fm_x)
            /\ fm_idx' \in fm_i'
            /\ fm_pc' = "returned"
    /\ UNCHANGED <<fm_x, solveVars, ordVars, dcVars, ipVars, slVars,
                   brVars>>

FairMaxNext == FairMaxCall

SpecFairMax == FairMaxInit /\ [][FairMaxNext]_vars

----------------------------------------------------------------------------
(* UDOPF.solve, lines 179-262, as a function of the case when the OPF is a *)
(* deterministic function of the online flags with a different objective   *)
(* value for every configuration: the outcomes solve can end with, one for *)
(* every order in which the for loop of line 219 could go through the      *)
(* candidates of each stage.                                               *)

Configs == [Gen -> BOOLEAN]

\* The outcomes of a solve of configuration on, with as many objective
\* values as there are configurations
DetOutcomes(on) ==
    {[ok |-> b, f |-> c, mu |-> m] :
        b \in BOOLEAN, c \in 1..Cardinality(Configs),
        m \in {mm \in [Gen -> MuVals \cup {0}] :
                  \A g \in Gen : mm[g] = 0 <=> ~on[g]}}

\* The functions giving every configuration of S one of its outcomes, no
\* two of them the same objective value
RECURSIVE DetOPFs(_)
DetOPFs(S) ==
    IF S = {} THEN {<<>>}
    ELSE LET on == CHOOSE c \in S : TRUE
         IN  UNION {{[c \in DOMAIN h \cup {on} |-> IF c = on THEN o ELSE h[c]] :
                        o \in {d \in DetOutcomes(on) :
                                  \A c \in DOMAIN h : h[c].f # d.f}} :
                    h \in DetOPFs(S \ {on})}

\* The orders a list can be gone through in
RECURSIVE Perms(_)
Perms(l) ==
    IF l = <<>> THEN {<<>>}
    ELSE UNION {{<<l[k]>> \o q :
                    q \in Perms(SubSeq(l, 1, k - 1) \o
                                SubSeq(l, k + 1, Len(l)))} :
                k \in 1..Len(l)}

\* One trial, lines 224-243: st holds overall_online, overall_cost, done and
\* the mu_p_min of the generators
TrialStep(opf, stage, st, c) ==
    LET on == TrialFlags(stage, c)
        out == opf[on]
        mu == IF out.ok THEN UpdateSolutionData(on, out) ELSE st.mu
    IN  IF Improves(out.ok, out.f, st.cost)
        THEN [on |-> OnlineFlags(on), cost |-> out.f, done |-> FALSE,
              mu |-> mu]
        ELSE [st EXCEPT !.mu = mu]

\* The for loop of lines 219-243 over the candidates in the given order
RECURSIVE RunTrials(_, _, _, _)
RunTrials(opf, stage, st, order) ==
    IF order = <<>> THEN st
    ELSE RunTrials(opf, stage, TrialStep(opf, stage, st, Head(order)),
                   Tail(order))

\* The main loop from a stage best on, lines 198-260: the configurations and
\* costs it can end with
RECURSIVE MainLoop(_, _, _, _)
MainLoop(opf, stage, cost, mu) ==
    LET cs == Candidates(Activate(stage), mu)
    IN  IF cs = <<>> THEN {[result |-> "True", on |-> stage, cost |-> cost]}
        ELSE UNION {
            LET st == RunTrials(opf, stage,
                          [on |-> stage, cost |-> cost, done |-> TRUE,
                           mu |-> mu], order)
            IN  IF st.done
                THEN {[result |-> "True", on |-> stage, cost |-> cost]}
                ELSE MainLoop(opf, st.on, st.cost, st.mu) :
            order \in Perms(cs)}

\* solve from the baseline solve on, lines 179-270
SolveOutcomes(opf, on) ==
    LET out == opf[on]
    IN  IF BaselineFailed(out.ok)
        THEN {[result |-> "False", on |-> on, cost |-> 0]}
        ELSE MainLoop(opf, OnlineFlags(on), out.f,
                      UpdateSolutionData(on, out))

\* The cases: no dispatchable loads, and load enough for the pre-pass loop
\* to switch nothing off
OrderInit ==
    /\ ord_pc = "run"
    /\ ord_opf \in DetOPFs(Configs)
    /\ ord_finals = {}
    /\ is_load = [g \in Gen |-> FALSE]
    /\ p_min \in [Gen -> 1..MaxPMin]
    /\ cost_p_min = [g \in Gen |-> 1]
    /\ load_p = NG * MaxPMin
    /\ DriverIdle
    /\ FairMaxIdle
    /\ DCIdle
    /\ IPMIdle
    /\ StepIdle
    /\ InjIdle

\* solve is run on the case with every generator online
OrderRun ==
    /\ ord_pc = "run"
    /\ ord_finals' = SolveOutcomes(ord_opf, [g \in Gen |-> TRUE])
    /\ ord_pc' = "done"
    /\ UNCHANGED <<ord_opf, solveVars, fmVars, dcVars, ipVars, slVars,
                   brVars>>

OrderNext == OrderRun

SpecOrder == OrderInit /\ [][OrderNext]_vars

----------------------------------------------------------------------------
(* One call of DCOPFRoutine, src/pylon/dc_opf.py:167-211, on a network of  *)
(* NB connected buses and the generators 1..NG, in the order of            *)
(* network.all_generators.  A matrix is modelled by what the claims are    *)
(* about: its column count and the place of its non-zero entries.  An      *)
(* angle in radians is the multiple <<n, d>> of pi, n / d * pi.            *)

\* Number of connected buses of the network.
NB == 2

Bus == 1..NB

CostModels == {"Polynomial", "Piecewise Linear"}

\* The statuses a solution of cvxopt's qp can carry, lines 767-786
Statuses == {"optimal", "unknown", "primal infeasible", "dual infeasible"}

notDC == <<solveVars, fmVars, ordVars, ipVars, slVars, brVars>>

DCInit ==
    /\ bus_slack \in [Bus -> BOOLEAN]
    /\ bus_guess \in [Bus -> {0, 30}]
    /\ gen_bus \in [Gen -> Bus]
    /\ gen_online \in [Gen -> BOOLEAN]
    /\ gen_model \in [Gen -> CostModels]
    /\ net_fields = Previous
    /\ dc_pc = "check"
    /\ dc_error = "none"
    /\ dc_solver_type = "linear"
    /\ dc_x = <<>>
    /\ dc_ref = [cols |-> 0, nz |-> {}, b |-> 0]
    /\ dc_blocks = {}
    /\ dc_qp_calls = 0
    /\ dc_status = "none"
    /\ dc_index = [incidence |-> <<>>, limits |-> <<>>, cost |-> <<>>,
                   written |-> <<>>]
    /\ SolveIdle
    /\ FairMaxIdle
    /\ OrderIdle
    /\ IPMIdle
    /\ StepIdle
    /\ InjIdle

\* network.online_generators: the generators whose online flag is set
OnlineGenerators == ListFrom({g \in Gen : gen_online[g]}, NG)

\* v.generators: the generators attached to bus v
BusGenerators(v) == ListFrom({g \in Gen : gen_bus[g] = v}, NG)

\* models, line 290
Models == {gen_model[g] : g \in Range(OnlineGenerators)}

\* line 292 with the test left out
NeverMixed(models) == FALSE

\* line 292
Mixed(models) == "Polynomial" \in models /\ "Piecewise Linear" \in models

\* lines 306-315
SolverType(models, current) ==
    IF "Polynomial" \notin models THEN "linear"
    ELSE IF "Piecewise Linear" \notin models THEN "quadratic"
    ELSE current

\* _check_cost_model_consistency, lines 282-315
DCCheck ==
    /\ dc_pc = "check"
    /\ IF Mixed(Models)
       THEN /\ dc_pc' = "raised"
            /\ dc_error' = "NotImplementedError"
            /\ UNCHANGED dc_solver_type
       ELSE /\ dc_solver_type' = SolverType(Models, dc_solver_type)
            /\ dc_pc' = "build_x"
            /\ UNCHANGED dc_error
    /\ UNCHANGED <<netVars, net_fields, dc_x, dc_ref, dc_blocks, dc_qp_calls,
                   dc_status, dc_index, notDC>>

\* degrees * pi / 180
Rad(degrees) == <<degrees, 180>>

\* _g_buses, line 331
GBuses == ListFrom({v \in Bus : BusGenerators(v) # <<>>}, NB)

\* The lists of a list of lists one after the other
RECURSIVE Flatten(_)
Flatten(ll) == IF ll = <<>> THEN <<>> ELSE Head(ll) \o Flatten(Tail(ll))

\* The generators of the given buses, bus after bus (lines 339-341, 478-482)
GeneratorsOf(buses) ==
    Flatten([k \in 1..Len(buses) |-> BusGenerators(buses[k])])

\* The vector x of lines 328-345
BuildX(type) ==
    [k \in 1..NB |->
        [kind |-> "v_phase", of |-> k, val |-> Rad(bus_guess[k])]] \o
    [k \in 1..Len(GBuses) |->
        [kind |-> "p_supply", of |-> GBuses[k], val |-> <<0, 1>>]] \o
    (IF type = "linear"
     THEN [k \in 1..Len(GeneratorsOf(GBuses)) |->
              [kind |-> "p_cost", of |-> GeneratorsOf(GBuses)[k],
               val |-> <<0, 1>>]]
     ELSE <<>>)

\* _build_x, lines 321-349
DCBuildX ==
    /\ dc_pc = "build_x"
    /\ dc_x' = BuildX(dc_solver_type)
    /\ dc_pc' = "cost"
    /\ UNCHANGED <<netVars, net_fields, dc_error, dc_solver_type, dc_ref,
                   dc_blocks, dc_qp_calls, dc_status, dc_index, notDC>>

\* n_generators
NGen == Len(OnlineGenerators)

\* n_cost where the blocks get their cost columns (lines 443-446, 532-537)
NCost(type) == IF type = "linear" THEN NGen ELSE 0

\* _build_cost_constraint, lines 355-418, every piecewise-linear generator
\* having one segment
DCBuildCost ==
    /\ dc_pc = "cost"
    /\ dc_blocks' = dc_blocks \cup
          {<<"cost", NB + NGen + NCost(dc_solver_type)>>}
    /\ dc_pc' = "ref"
    /\ UNCHANGED <<netVars, net_fields, dc_error, dc_solver_type, dc_x,
                   dc_ref, dc_qp_calls, dc_status, dc_index, notDC>>

\* ref_idxs, line 433 (positions count from 1)
RefIdxs == ListFrom({v \in Bus : bus_slack[v]}, NB)

\* lines 439-440 left out
AnyNumberOfRefs(idxs) == FALSE

\* lines 439-440: more than one slack bus
TooManyRefs(idxs) == Len(idxs) > 1

\* lines 435-438
RefIdx(idxs) == IF Len(idxs) = 0 THEN 1 ELSE idxs[1]

\* _build_reference_angle_constraint, lines 424-457
DCBuildRef ==
    /\ dc_pc = "ref"
    /\ IF TooManyRefs(RefIdxs)
       THEN /\ dc_pc' = "raised"
            /\ dc_error' = "ValueError"
            /\ UNCHANGED <<dc_ref, dc_blocks>>
       ELSE /\ dc_ref' = [cols |-> NB + NGen + NCost(dc_solver_type),
                          nz |-> {RefIdx(RefIdxs)},
                          b |-> bus_guess[RefIdx(RefIdxs)]]
            /\ dc_blocks' = dc_blocks \cup {<<"ref", dc_ref'.cols>>}
            /\ dc_pc' = "mismatch"
            /\ UNCHANGED dc_error
    /\ UNCHANGED <<netVars, net_fields, dc_solver_type, dc_x, dc_qp_calls,
                   dc_status, dc_index, notDC>>

\* lines 476-482: the bus row that gets the entry of column j, the columns
\* being counted over the generators of the buses, bus after bus
IncidenceRows ==
    [j \in 1..Len(GeneratorsOf([v \in Bus |-> v])) |->
        gen_bus[GeneratorsOf([v \in Bus |-> v])[j]]]

\* _build_active_power_flow_equations, lines 463-512: the incidence matrix
\* has a column for every online generator and gets an entry for every
\* generator of every bus, so an entry beyond its columns raises IndexError;
\* "zeros" of line 490 is not a name of the module
DCBuildMismatch ==
    /\ dc_pc = "mismatch"
    /\ IF Len(GeneratorsOf([v \in Bus |-> v])) > NGen
       THEN /\ dc_pc' = "raised"
            /\ dc_error' = "IndexError"
            /\ UNCHANGED <<dc_blocks, dc_index>>
       ELSE IF dc_solver_type = "linear"
       THEN /\ dc_pc' = "raised"
            /\ dc_error' = "NameError"
            /\ UNCHANGED <<dc_blocks, dc_index>>
       ELSE /\ dc_blocks' = dc_blocks \cup {<<"mismatch", NB + NGen>>}
            /\ dc_index' = [dc_index EXCEPT !.incidence = IncidenceRows]
            /\ dc_pc' = "limits"
            /\ UNCHANGED dc_error
    /\ UNCHANGED <<netVars, net_fields, dc_solver_type, dc_x, dc_ref,
                   dc_qp_calls, dc_status, notDC>>

\* _build_generation_limit_constraint and _build_branch_flow_limit_constraint,
\* lines 518-600
DCBuildLimits ==
    /\ dc_pc = "limits"
    /\ dc_blocks' = dc_blocks \cup
          {<<"generation", NB + NGen + NCost(dc_solver_type)>>,
           <<"flow", NB + NGen + NCost(dc_solver_type)>>}
    /\ dc_index' = [dc_index EXCEPT !.limits = OnlineGenerators]
    /\ dc_pc' = "objective"
    /\ UNCHANGED <<netVars, net_fields, dc_error, dc_solver_type, dc_x,
                   dc_ref, dc_qp_calls, dc_status, notDC>>

\* _build_h and _build_c, lines 676-740
DCBuildObjective ==
    /\ dc_pc = "objective"
    /\ IF dc_solver_type = "linear"
       THEN /\ dc_pc' = "raised"
            /\ dc_error' = "NotImplementedError"
            /\ UNCHANGED <<dc_blocks, dc_index>>
       ELSE /\ dc_blocks' = dc_blocks \cup
                  {<<"hh", NB + NGen>>, <<"cc", NB + NGen>>}
            /\ dc_index' = [dc_index EXCEPT !.cost = OnlineGenerators]
            /\ dc_pc' = "solve"
            /\ UNCHANGED dc_error
    /\ UNCHANGED <<netVars, net_fields, dc_solver_type, dc_x, dc_ref,
                   dc_qp_calls, dc_status, notDC>>

\* What _update_solution_data leaves in the result fields, lines 799-875
Written == [f \in DOMAIN Previous |-> "solution"]

\* line 208 with the test left out
AlwaysUpdate(status) == TRUE

\* line 208: if solution["status"] == "optimal"
ShouldUpdate(status) == status = "optimal"

\* _solve_qp and the handling of its result, lines 743-796 and 205-211; the
\* solver returns a solution with a status or raises
DCSolve ==
    /\ dc_pc = "solve"
    /\ dc_qp_calls' = dc_qp_calls + 1
    /\ \E out \in Statuses \cup {"raise"} :
          IF out = "raise"
          THEN /\ dc_pc' = "raised"
               /\ dc_error' = "solver"
               /\ UNCHANGED <<dc_status, net_fields, dc_index>>
          ELSE /\ dc_status' = out
               /\ net_fields' = IF ShouldUpdate(out) THEN Written
                                ELSE net_fields
               /\ dc_index' = IF ShouldUpdate(out)
                               THEN [dc_index EXCEPT
                                        !.written = OnlineGenerators]
                               ELSE dc_index
               /\ dc_pc' = "returned"
               /\ UNCHANGED dc_error
    /\ UNCHANGED <<netVars, dc_solver_type, dc_x, dc_ref, dc_blocks, notDC>>

DCNext ==
    \/ DCCheck
    \/ DCBuildX
    \/ DCBuildCost
    \/ DCBuildRef
    \/ DCBuildMismatch
    \/ DCBuildLimits
    \/ DCBuildObjective
    \/ DCSolve

SpecDC == DCInit /\ [][DCNext]_vars

----------------------------------------------------------------------------
(* One call of pdipm, src/pylon/pdipm.py:54-316, on a problem without      *)
(* non-linear constraints (as pdipm_qp calls it).  A bound of a row is     *)
(* <<"fin", n>>, the float n * EPS, or <<"inf", s>>, a float beyond 1e10   *)
(* on the side of the sign s.  The floats the iteration computes are not   *)
(* modelled: what a step of the loop finds (which residuals are below      *)
(* their tolerance, whether a step direction has a negative component,     *)
(* which failure test fires) is chosen freely.                             *)

\* EPS = 2**-52, the unit of the finite bounds
EPS == 1
\* Number of rows of [I; A]: nx + nA.
NRow == 2
\* Largest max_it pdipm is called with.
MaxIt == 2

Row == 1..NRow

LowerBounds == {<<"inf", 0 - 1>>, <<"fin", 0>>}
UpperBounds == {<<"fin", 0>>, <<"fin", 1>>, <<"fin", 2>>, <<"inf", 1>>}

Residuals == {"feascond", "gradcond", "compcond", "costcond"}

\* What an evaluation of the four residuals can find not below tolerance
AboveChoices == {{}, Residuals} \cup {{r} : r \in Residuals}

\* lines 157-158 and 262-263 without the test of costcond
ConvergedWithoutCost(above) == above \subseteq {"costcond"}

\* lines 157-158 and 262-263: feascond < feastol and gradcond < gradtol and
\* compcond[0] < comptol and costcond[0] < costtol
Converged(above) == above = {}

\* The tests of lines 267-268
Failures == {"none", "nan", "alphap", "alphad", "gamma_low", "gamma_high"}

notIPM == <<solveVars, fmVars, ordVars, dcVars, slVars, brVars>>

IPMInit ==
    /\ ip_ll \in [Row -> LowerBounds]
    /\ ip_uu \in [Row -> UpperBounds]
    /\ ip_max_it \in 0..MaxIt
    /\ ip_step_control \in BOOLEAN
    /\ ip_nx \in 1..NRow
    /\ ip_pc = "partition"
    /\ IPMFresh
    /\ StepIdle
    /\ InjIdle
    /\ SolveIdle
    /\ FairMaxIdle
    /\ OrderIdle
    /\ DCIdle

Abs(n) == IF n < 0 THEN 0 - n ELSE n

\* b >= 1e10
AtLeastBig(b) == b[1] = "inf" /\ b[2] > 0

\* b <= -1e10
AtMostMinusBig(b) == b[1] = "inf" /\ b[2] < 0

\* abs(uu - ll) < EPS, line 98
GapBelowEPS(l, u) ==
    l[1] = "fin" /\ u[1] = "fin" /\ Abs(u[2] - l[2]) < EPS

\* abs(uu - ll) > EPS, line 102
GapAboveEPS(l, u) ==
    l[1] = "inf" \/ u[1] = "inf" \/ Abs(u[2] - l[2]) > EPS

\* lines 98-103 (positions count from 1)
Ieq == ListFrom({j \in Row : GapBelowEPS(ip_ll[j], ip_uu[j])}, NRow)
Igt ==
    ListFrom({j \in Row : AtLeastBig(ip_uu[j]) /\ ~AtMostMinusBig(ip_ll[j])},
             NRow)
Ilt ==
    ListFrom({j \in Row : AtMostMinusBig(ip_ll[j]) /\ ~AtLeastBig(ip_uu[j])},
             NRow)
Ibx ==
    ListFrom({j \in Row : /\ GapAboveEPS(ip_ll[j], ip_uu[j])
                          /\ ~AtLeastBig(ip_uu[j])
                          /\ ~AtMostMinusBig(ip_ll[j])}, NRow)

\* The rows idx of AA with the sign they are taken with
Rows(sign, idx) == [k \in 1..Len(idx) |-> <<sign, idx[k]>>]

\* Ai, line 106
BuildAi == Rows(1, Ilt) \o Rows(0 - 1, Igt) \o Rows(1, Ibx) \o Rows(0 - 1, Ibx)

\* the split of the linear constraints, lines 92-107
IPMPartition ==
    /\ ip_pc = "partition"
    /\ ip_part' = [ieq |-> Ieq, igt |-> Igt, ilt |-> Ilt, ibx |-> Ibx,
                   Ai |-> BuildAi]
    /\ ip_pc' = "start"
    /\ UNCHANGED <<ipArgs, ip_error, ip_i, ip_converged, ip_above, ip_fail,
                   ip_info, ip_output, ip_lam, ip_mu, ip_lmbda, notIPM>>

\* niq, line 123, there being no non-linear constraints
Niq == Len(ip_part.Ai)

\* the evaluation at x0 and the first test of the tolerances, lines 109-160;
\* max(g) of line 147 raises ValueError when there is no inequality
IPMStart ==
    /\ ip_pc = "start"
    /\ IF Niq = 0
       THEN /\ ip_pc' = "raised"
            /\ ip_error' = "ValueError"
            /\ UNCHANGED <<ip_above, ip_converged>>
       ELSE /\ ip_above' \in AboveChoices
            /\ ip_converged' = Converged(ip_above')
            /\ ip_pc' = "loop"
            /\ UNCHANGED ip_error
    /\ UNCHANGED <<ipArgs, ip_part, ip_i, ip_fail, ip_info, ip_output, ip_lam,
                   ip_mu, ip_lmbda, notIPM>>

\* What can end an iteration before its update is made: linsolve of line
\* 182 raises ArithmeticError on a singular matrix; line 192 unpacks the
\* three values of ipm_f into two names; min() of lines 233 and 235 raises
\* ValueError when no component of dz, or of dmu, is negative
StepErrors(step_control) ==
    IF step_control THEN {"ArithmeticError", "ValueError"}
    ELSE {"ArithmeticError", "ValueError", "none"}

\* one iteration of the Newton loop, lines 163-274
IPMIterate ==
    /\ ip_pc = "loop"
    /\ ~ip_converged /\ ip_i < ip_max_it
    /\ ip_i' = ip_i + 1
    /\ \E err \in StepErrors(ip_step_control) :
          IF err # "none"
          THEN /\ ip_pc' = "raised"
               /\ ip_error' = err
               /\ UNCHANGED <<ip_above, ip_converged, ip_fail>>
          ELSE /\ ip_above' \in AboveChoices
               /\ ip_converged' = Converged(ip_above')
               /\ IF ip_converged'
                  THEN ip_fail' = ip_fail /\ ip_pc' = "loop"
                  ELSE /\ ip_fail' \in Failures
                       /\ ip_pc' = IF ip_fail' # "none" THEN "post"
                                   ELSE "loop"
               /\ UNCHANGED ip_error
    /\ UNCHANGED <<ipArgs, ip_part, ip_info, ip_output, ip_lam, ip_mu,
                   ip_lmbda, notIPM>>

\* the loop test of line 163 fails
IPMLoopExit ==
    /\ ip_pc = "loop"
    /\ ~(~ip_converged /\ ip_i < ip_max_it)
    /\ ip_pc' = "post"
    /\ UNCHANGED <<ipArgs, ip_error, ip_part, ip_i, ip_converged, ip_above,
                   ip_fail, ip_info, ip_output, ip_lam, ip_mu, ip_lmbda,
                   notIPM>>

\* v[idx] = vals for an index list idx (positions count from 1): the
\* entries are assigned in order
RECURSIVE AssignAt(_, _, _)
AssignAt(v, idx, vals) ==
    IF idx = <<>> THEN v
    ELSE AssignAt([v EXCEPT ![Head(idx)] = Head(vals)], Tail(idx), Tail(vals))

\* v[a:b] of Python, for the positions a+1..b
Slice(v, a, b) == SubSeq(v, a + 1, b)

\* line 302 with the slice of line 307
BoxLowerFromUpperSlice(nlt, ngt, nbx) ==
    Slice(ip_mu', nlt + ngt, nlt + ngt + nbx)

\* mu_lin[nlt + ngt + nbx:nlt + ngt + nbx + nbx], line 302
BoxLowerSlice(nlt, ngt, nbx) ==
    Slice(ip_mu', nlt + ngt + nbx, nlt + ngt + nbx + nbx)

\* mu_l, lines 300-302
BuildMuL ==
    LET nlt == Len(ip_part.ilt)
        ngt == Len(ip_part.igt)
        nbx == Len(ip_part.ibx)
        \* kl, line 295
        kl == ListFrom({k \in 1..Len(ip_lam') : ip_lam'[k] < 0}, Len(ip_lam'))
        m0 == [j \in Row |-> 0]
        m1 == AssignAt(m0, [n \in 1..Len(kl) |-> ip_part.ieq[kl[n]]],
                       [n \in 1..Len(kl) |-> 0 - ip_lam'[kl[n]]])
        m2 == AssignAt(m1, ip_part.igt, Slice(ip_mu', nlt, nlt + ngt))
    IN  AssignAt(m2, ip_part.ibx, BoxLowerSlice(nlt, ngt, nbx))

\* mu_u, lines 304-307
BuildMuU ==
    LET nlt == Len(ip_part.ilt)
        ngt == Len(ip_part.igt)
        nbx == Len(ip_part.ibx)
        \* ku, line 297
        ku == ListFrom({k \in 1..Len(ip_lam') : ip_lam'[k] > 0}, Len(ip_lam'))
        m0 == [j \in Row |-> 0]
        m1 == AssignAt(m0, [n \in 1..Len(ku) |-> ip_part.ieq[ku[n]]],
                       [n \in 1..Len(ku) |-> ip_lam'[ku[n]]])
        m2 == AssignAt(m1, ip_part.ilt, Slice(ip_mu', 0, nlt))
    IN  AssignAt(m2, ip_part.ibx, Slice(ip_mu', nlt + ngt, nlt + ngt + nbx))

\* info, output, the multipliers and the return, lines 276-316; cost_mult
\* is 1, lam_lin holds -1, 0 or 1 and mu_lin, zeroed at line 286 or
\* positive, 0 or 1
IPMReturn ==
    /\ ip_pc = "post"
    /\ ip_info' = ip_converged
    /\ ip_output' = [iterations |-> ip_i, residuals |-> Residuals]
    /\ ip_lam' \in [1..Len(ip_part.ieq) -> {0 - 1, 0, 1}]
    /\ ip_mu' \in [1..Niq -> {0, 1}]
    /\ ip_lmbda' = [mu_l |-> Slice(BuildMuL, ip_nx, NRow),
                    mu_u |-> Slice(BuildMuU, ip_nx, NRow),
                    lower |-> Slice(BuildMuL, 0, ip_nx),
                    upper |-> Slice(BuildMuU, 0, ip_nx)]
    /\ ip_pc' = "returned"
    /\ UNCHANGED <<ipArgs, ip_error, ip_part, ip_i, ip_converged, ip_above,
                   ip_fail, notIPM>>

IPMNext ==
    \/ IPMPartition
    \/ IPMStart
    \/ IPMIterate
    \/ IPMLoopExit
    \/ IPMReturn

SpecIPM == IPMInit /\ [][IPMNext]_vars

-----------------------------------------------------------------------------
(* The slack z and the multiplier mu of pdipm, src/pylon/pdipm.py:129-139   *)
(* and 184-240, with exact fractions <<n, d>> (d > 0) for the floats.  A    *)
(* run starts at x0 with the residuals g, or at a later iterate with the    *)
(* positive z and mu an earlier update left, and makes one update of the    *)
(* Newton loop without step control.  dz depends on the solution of the     *)
(* linear system and is chosen freely.  gamma is followed as the value the  *)
(* update reads: the value line 240 leaves is GammaOf of the new z and mu.  *)

\* Number of inequality rows, niq.
NIq == 2
\* Largest size of a residual g[j] at x0.
MaxRes == 2
\* Largest size of a negative component of dz.
MaxDir == 2

\* z0 = 1
Z0 == 1

Ineq == 1..NIq

RECURSIVE GCD(_, _)
GCD(a, b) == IF b = 0 THEN a ELSE GCD(b, a % b)

\* The fraction n / d in lowest terms with a positive denominator
Frac(n, d) ==
    LET c == GCD(Abs(n), Abs(d))
    IN  IF d < 0 THEN <<(0 - n) \div c, (0 - d) \div c>>
        ELSE <<n \div c, d \div c>>

FInt(n) == <<n, 1>>
\* a + b over the least common denominator
FAdd(a, b) ==
    LET lcd == (a[2] \div GCD(a[2], b[2])) * b[2]
    IN  Frac(a[1] * (lcd \div a[2]) + b[1] * (lcd \div b[2]), lcd)
FNeg(a) == <<0 - a[1], a[2]>>
\* a * b, the common factors taken out before the products are made
FMul(a, b) ==
    LET p == Frac(a[1], b[2])
        q == Frac(b[1], a[2])
    IN  <<p[1] * q[1], p[2] * q[2]>>
FDiv(a, b) ==
    IF b[1] < 0 THEN FMul(a, <<0 - b[2], 0 - b[1]>>) ELSE FMul(a, <<b[2], b[1]>>)
FLess(a, b) ==
    LET lcd == (a[2] \div GCD(a[2], b[2])) * b[2]
    IN  a[1] * (lcd \div a[2]) < b[1] * (lcd \div b[2])

\* min() of a non-empty collection of floats
FMin(S) == CHOOSE m \in S : \A o \in S : ~FLess(o, m)

\* xi = 1: the step that reaches the boundary
XiOne == FInt(1)

\* xi = 0.99995
Xi == Frac(99995, 100000)

\* sigma = 0.1
Sigma == Frac(1, 10)

\* gamma = 1, line 130
Gamma0 == FInt(1)

\* The residuals g[j] = (Ai * x0 - bi)[j]
GVals == (0 - MaxRes)..0

\* The components of dz
DzVals == (0 - MaxDir)..1

\* The components of z and mu at a later iterate
PosVals == {Frac(1, 2), FInt(1), FInt(2)}

RECURSIVE FSum(_, _)
FSum(v, n) == IF n = 0 THEN FInt(0) ELSE FAdd(FSum(v, n - 1), v[n])

\* gamma = sigma * (z.T * mu) / niq, line 240
GammaOf(z, mu) ==
    FDiv(FMul(Sigma, FSum([j \in Ineq |-> FMul(z[j], mu[j])], NIq)),
         FInt(NIq))

\* lines 132-138.  z0 * matrix(1.0, (niq, 1)) makes one matrix and
\* "mu = z" gives it a second name: an assignment through either name
\* changes the matrix both names stand for.
InitZMu(g) ==
    LET m0 == [j \in Ineq |-> FInt(Z0)]
        \* k = [j : g[j] < -z0]; z[k] = -g[k]
        k1 == {j \in Ineq : g[j] < 0 - Z0}
        m1 == [j \in Ineq |-> IF j \in k1 THEN FInt(0 - g[j]) ELSE m0[j]]
        \* k = [j : gamma / z[j] > z0]; mu[k] = div(gamma, z[k])
        k2 == {j \in Ineq : FLess(FInt(Z0), FDiv(Gamma0, m1[j]))}
        m2 == [j \in Ineq |->
                  IF j \in k2 THEN FDiv(Gamma0, m1[j]) ELSE m1[j]]
    IN  [z |-> m2, mu |-> m2]

StepInit ==
    /\ \/ /\ sl_pc = "init"
          /\ sl_g \in [Ineq -> GVals]
          /\ sl_z = <<>>
          /\ sl_mu = <<>>
          /\ sl_gamma = <<0, 1>>
          /\ sl_i = 0
       \/ /\ sl_pc = "loop"
          /\ sl_g = <<>>
          /\ sl_z \in [Ineq -> PosVals]
          /\ sl_mu \in [Ineq -> PosVals]
          /\ sl_gamma = GammaOf(sl_z, sl_mu)
          /\ sl_i = 1
    /\ sl_dz = <<>>
    /\ sl_dmu = <<>>
    /\ sl_alphap = <<0, 1>>
    /\ sl_alphad = <<0, 1>>
    /\ sl_error = "none"
    /\ SolveIdle
    /\ FairMaxIdle
    /\ OrderIdle
    /\ DCIdle
    /\ IPMIdle
    /\ InjIdle

\* the initialisation of gamma, z and mu, lines 129-139
StepInitialise ==
    /\ sl_pc = "init"
    /\ sl_gamma' = Gamma0
    /\ sl_z' = InitZMu(sl_g).z
    /\ sl_mu' = InitZMu(sl_g).mu
    /\ sl_pc' = "loop"
    /\ UNCHANGED <<sl_g, sl_dz, sl_dmu, sl_alphap, sl_alphad, sl_i, sl_error,
                   solveVars, fmVars, ordVars, dcVars, ipVars, brVars>>

\* dmu = -mu + zinvdiag * (gamma * e - mudiag * dz), line 185
Dmu(z, mu, gamma, dz) ==
    [j \in Ineq |->
        FAdd(FNeg(mu[j]),
             FDiv(FAdd(gamma, FNeg(FMul(mu[j], dz[j]))), z[j]))]

\* min(matrix([xi * min(div(v[k], -d[k])), 1])), lines 233 and 235, for a
\* non-empty k
StepLength(v, d, k) ==
    FMin({FMul(Xi, FMin({FDiv(v[j], FNeg(d[j])) : j \in k})), FInt(1)})

\* v + alpha * d, lines 237 and 239
Moved(v, alpha, d) == [j \in Ineq |-> FAdd(v[j], FMul(alpha, d[j]))]

\* one update of z and mu, lines 184-185 and 231-240; min() of line 233 or
\* of line 235 raises ValueError when no component of dz, or of dmu, is
\* negative
StepUpdate ==
    /\ sl_pc = "loop"
    /\ \E d \in [Ineq -> DzVals] :
          LET dz == [j \in Ineq |-> FInt(d[j])]
              dmu == Dmu(sl_z, sl_mu, sl_gamma, dz)
              kp == {j \in Ineq : FLess(dz[j], FInt(0))}
              kd == {j \in Ineq : FLess(dmu[j], FInt(0))}
          IN  /\ sl_dz' = dz
              /\ sl_dmu' = dmu
              /\ IF kp = {} \/ kd = {}
                 THEN /\ sl_pc' = "raised"
                      /\ sl_error' = "ValueError"
                      /\ sl_alphap' = IF kp = {} THEN sl_alphap
                                      ELSE StepLength(sl_z, dz, kp)
                      /\ UNCHANGED <<sl_z, sl_mu, sl_alphad, sl_i>>
                 ELSE /\ sl_alphap' = StepLength(sl_z, dz, kp)
                      /\ sl_alphad' = StepLength(sl_mu, dmu, kd)
                      /\ sl_z' = Moved(sl_z, sl_alphap', dz)
                      /\ sl_mu' = Moved(sl_mu, sl_alphad', dmu)
                      /\ sl_i' = sl_i + 1
                      /\ sl_pc' = "updated"
                      /\ UNCHANGED sl_error
    /\ UNCHANGED <<sl_g, sl_gamma, solveVars, fmVars, ordVars, dcVars, ipVars,
                   brVars>>

StepNext ==
    \/ StepInitialise
    \/ StepUpdate

SpecStep == StepInit /\ [][StepNext]_vars

-----------------------------------------------------------------------------
(* The phase shift injections of DCOPFRoutine,                              *)
(* src/pylon/dc_opf.py:217-276.  A float is p + big * 1e12 + tiny * 1e-12   *)
(* with an exact fraction p and integers big and tiny; an injection is      *)
(* such a float in units of pi / 180.                                       *)

\* Number of branches of the case.
NBr == 2

\* The branches a case can hold: reactances 0, 1 and 2, phase shifts of
\* -1, 0 and 1 degrees
Branches ==
    [online : BOOLEAN, x : {0, 1, 2}, phase_shift : {0 - 1, 0, 1},
     source_bus : Bus, target_bus : Bus]

InjInit ==
    /\ br_branches \in [1..NBr -> Branches]
    /\ br_pc = "source"
    /\ br_source_inj = <<>>
    /\ br_bus_inj = <<>>
    /\ SolveIdle
    /\ FairMaxIdle
    /\ OrderIdle
    /\ DCIdle
    /\ IPMIdle
    /\ StepIdle

Plain(f) == [p |-> f, big |-> 0, tiny |-> 0]

\* k * a for an integer k
Times(k, a) ==
    [p |-> FMul(FInt(k), a.p), big |-> k * a.big, tiny |-> k * a.tiny]

Plus(a, b) ==
    [p |-> FAdd(a.p, b.p), big |-> a.big + b.big, tiny |-> a.tiny + b.tiny]

RECURSIVE PlusAll(_, _)
PlusAll(v, n) ==
    IF n = 0 THEN Plain(FInt(0)) ELSE Plus(PlusAll(v, n - 1), v[n])

\* network.online_branches
OnlineBranches ==
    LET IsOnline(e) == e.online
    IN  SelectSeq(br_branches, IsOnline)

\* lines 225-230: branch.x, or 1e12 for a branch with x = 0
Susc(x) ==
    IF x # 0 THEN Plain(FInt(x)) ELSE [p |-> FInt(0), big |-> 1, tiny |-> 0]

\* _build_theta_inj_source, lines 217-246: mul(b, angle) with
\* angle = -phase_shift * pi / 180
InjSource ==
    /\ br_pc = "source"
    /\ br_source_inj' =
          [k \in 1..Len(OnlineBranches) |->
              Times(0 - OnlineBranches[k].phase_shift,
                    Susc(OnlineBranches[k].x))]
    /\ br_pc' = "bus"
    /\ UNCHANGED <<br_branches, br_bus_inj, solveVars, fmVars, ordVars,
                   dcVars, ipVars, slVars>>

\* source_incd and target_incd, lines 257-266
Incd(v, k, end) ==
    IF OnlineBranches[k][end] = v THEN 1 ELSE 0

\* _build_theta_inj_bus, lines 249-276:
\* source_incd * source_inj + target_incd * -source_inj
InjBus ==
    /\ br_pc = "bus"
    /\ br_bus_inj' =
          [v \in Bus |->
              Plus(PlusAll([k \in 1..Len(OnlineBranches) |->
                              Times(Incd(v, k, "source_bus"),
                                    br_source_inj[k])],
                           Len(OnlineBranches)),
                   PlusAll([k \in 1..Len(OnlineBranches) |->
                              Times(Incd(v, k, "target_bus"),
                                    Times(0 - 1, br_source_inj[k]))],
                           Len(OnlineBranches)))]
    /\ br_pc' = "done"
    /\ UNCHANGED <<br_branches, br_source_inj, solveVars, fmVars, ordVars,
                   dcVars, ipVars, slVars>>

InjNext ==
    \/ InjSource
    \/ InjBus

SpecInj == InjInit /\ [][InjNext]_vars

----------------------------------------------------------------------------
(* Properties of UDOPF.solve *)

\* C1: the current-best cost never increases.  Whenever the current best
\* changes after the baseline, its cost is the objective of the successful
\* solve just made on exactly that configuration and is strictly lower than
\* before; a stage that commits leaves a stage-best cost strictly lower than
\* the previous one; and at a return of True the flags on the case are the
\* best configuration, whose cost is at most the baseline cost.
C1_CostNeverIncreases ==
    [][/\ (pc \in {"stage", "trial", "stage_end", "final"} =>
              /\ overall_cost' <= overall_cost
              /\ (overall_cost' # overall_cost \/
                  overall_online' # overall_online) =>
                      /\ overall_cost' < overall_cost
                      /\ last_solve'.ok
                      /\ last_solve'.on = overall_online'
                      /\ routine_f' = overall_cost')
       /\ (pc = "stage_end" /\ pc' = "stage" =>
              /\ stage_cost' < stage_cost
              /\ stage_cost' = overall_cost')
       /\ (result' = "True" =>
              /\ online' = overall_online'
              /\ overall_cost' <= baseline_cost')]_vars

\* C1 witness: solve has returned True after committing an improvement
C1_Witness ==
    /\ pc = "returned"
    /\ result = "True"
    /\ stage_cost < baseline_cost
    /\ overall_cost = stage_cost

\* C2: no OPF solve is made before the pre-pass loop is left, and the
\* baseline solve is made with the sum of p_min over the online non-load
\* generators at most the total load capacity.
C2_FeasibleBeforeFirstSolve ==
    /\ (pc \in {"begin", "prepass", "baseline", "raised"} =>
            last_solve.site = "none")
    /\ (pc = "baseline" =>
            SumOver(p_min, {g \in Gen : online[g] /\ ~is_load[g]}) <=
            load_p - SumOver(p_min, {g \in Gen : online[g] /\ is_load[g]}))

\* C2 witness: the baseline solve is reached after the pre-pass shut down a
\* generator
C2_Witness ==
    /\ pc = "baseline"
    /\ i_stage >= 1
    /\ \E g \in Gen : online[g] /\ ~is_load[g]

\* C3: every iteration of the pre-pass loop, which runs while the sum of
\* p_min of the online non-load generators exceeds the load capacity,
\* switches offline exactly one online non-load generator whose
\* cost(p_min)/p_min is maximal among them, and goes on to the loop test;
\* the loop is never left by an exception.
C3_PrePassShutsDownUntilFeasible ==
    [][(pc = "prepass" /\ p_min_tot > load_capacity) =>
          /\ pc' = "prepass"
          /\ \E g \in Gen :
                /\ online[g] /\ ~is_load[g]
                /\ online' = [online EXCEPT ![g] = FALSE]
                /\ \A h \in Gen :
                      (online[h] /\ ~is_load[h]) =>
                          FracLeq(cost_p_min[h], p_min[h],
                                  cost_p_min[g], p_min[g])]_vars

\* C4: a baseline solve that does not succeed makes solve return False at
\* once; a run that returned False made no other solve than the baseline
\* one and has the online flags as the pre-pass left them.
C4_BaselineFailureReturnsFalse ==
    /\ ((last_solve.site = "baseline" /\ ~last_solve.ok) =>
            (pc = "returned" /\ result = "False"))
    /\ (result = "False" =>
            /\ pc = "returned"
            /\ last_solve =
                  [site |-> "baseline", on |-> prepass_online, ok |-> FALSE]
            /\ online = prepass_online
            /\ trials = <<>>)

\* C4 witness: solve returned False after the pre-pass shut a generator down
C4_Witness ==
    /\ result = "False"
    /\ i_stage >= 1
    /\ \E g \in Gen : online[g]

\* C5: a trial solve that does not succeed leaves the current best
\* configuration, its cost and the improvement flag as they were, the loop
\* goes on to the next candidate of the stage (to the end of the stage after
\* the last one), and every return after the baseline solve returns True.
C5_FailedTrialIsNotFatal ==
    [][/\ ((pc = "trial" /\ ~success') =>
              /\ overall_online' = overall_online
              /\ overall_cost' = overall_cost
              /\ done' = done
              /\ result' = "none"
              /\ IF ci < Len(candidates)
                 THEN /\ pc' = "trial"
                      /\ ci' = ci + 1
                      /\ ~online'[candidates[ci + 1]]
                 ELSE pc' = "stage_end")
       /\ ((pc' = "returned" /\ pc # "baseline") => result' = "True")
       /\ (pc' = "raised" => pc = "prepass")]_vars

\* C5 witness: solve returned True from a stage whose first trial failed and
\* whose second trial was still made
C5_Witness ==
    /\ pc = "returned"
    /\ result = "True"
    /\ Len(trials) >= 2
    /\ ~trials[1].ok

\* C6: solve returns True only if the final re-solve succeeded.
C6_ReturnsTrueOnlyAfterSuccessfulFinalSolve ==
    result = "True" => (last_solve.site = "final" /\ last_solve.ok)

\* C7: the step that forms the candidate list makes it the list, without
\* repetition, of the generators that are online in the stage-best
\* configuration with round(mu_p_min, 4) > 0 (mu_p_min >= 0.00005) and
\* p_min > 0; with an empty list it leaves the loop for the final solve
\* without a trial solve, otherwise it goes to the first trial.
C7_CandidateList ==
    [][pc = "stage" =>
          /\ Range(candidates') =
                {g \in Gen : stage_online[g] /\ mu_p_min[g] >= 5 /\ p_min[g] > 0}
          /\ Len(candidates') = Cardinality(Range(candidates'))
          /\ last_solve' = last_solve
          /\ mu_p_min' = mu_p_min
          /\ IF candidates' = <<>> THEN pc' = "final" ELSE pc' = "trial"]_vars

\* C7 witness: a stage starts its trials with a candidate list that leaves
\* out an online generator whose shadow price rounds to zero
C7_Witness ==
    /\ pc = "trial"
    /\ ci = 1
    /\ trials = <<>>
    /\ \E g \in Gen : stage_online[g] /\ mu_p_min[g] = 4 /\ p_min[g] > 0

\* C8: every trial solve is made on the stage-best flags with the candidate
\* under trial, which is online in the stage best, as the only difference.
C8_TrialFlags ==
    pc = "trial" =>
        /\ ci \in 1..Len(candidates)
        /\ stage_online[candidates[ci]]
        /\ online = [stage_online EXCEPT ![candidates[ci]] = FALSE]

\* C8 witness: the second trial of a stage with the first candidate back
\* online
C8_Witness ==
    /\ pc = "trial"
    /\ ci = 2
    /\ online[candidates[1]]
    /\ ~online[candidates[2]]

\* The successful trials of the stage that cost less than the stage best
ImprovingTrials ==
    {i \in 1..Len(trials) : trials[i].ok /\ trials[i].f < stage_cost}

\* The first of the improving trials of least cost
BestTrial ==
    CHOOSE i \in ImprovingTrials :
        \A j \in ImprovingTrials :
            trials[i].f < trials[j].f \/ (trials[i].f = trials[j].f /\ i <= j)

\* C9: at the end of a stage every candidate has been tried; if a successful
\* trial cost strictly less than the best at the start of the stage, the
\* first successful trial of least cost becomes the current best
\* (configuration and cost) and the loop repeats, otherwise the current best
\* is unchanged and the loop stops.
C9_StageEnd ==
    [][pc = "stage_end" =>
          /\ Len(trials) = Len(candidates)
          /\ \A i \in 1..Len(trials) : trials[i].candidate = candidates[i]
          /\ IF ImprovingTrials # {}
             THEN /\ stage_cost' = trials[BestTrial].f
                  /\ stage_online' =
                        [stage_online EXCEPT
                            ![trials[BestTrial].candidate] = FALSE]
                  /\ overall_cost' = stage_cost'
                  /\ overall_online' = stage_online'
                  /\ pc' = "stage"
             ELSE /\ stage_cost' = stage_cost
                  /\ stage_online' = stage_online
                  /\ overall_cost' = stage_cost
                  /\ overall_online' = stage_online
                  /\ pc' = "final"]_vars

\* C9 witness: a stage ends with two successful improving trials of equal
\* cost
C9_Witness ==
    /\ pc = "stage_end"
    /\ Len(trials) >= 2
    /\ trials[1].ok /\ trials[2].ok
    /\ trials[1].f = trials[2].f
    /\ trials[1].f < stage_cost

\* C10: when solve has returned True the online flags are those of the best
\* configuration, no successful trial of the last stage cost less than it,
\* and the last solve made was the final one, on exactly these flags.
C10_FinalConfiguration ==
    result = "True" =>
        /\ pc = "returned"
        /\ online = overall_online
        /\ last_solve.site = "final"
        /\ last_solve.on = overall_online
        /\ \A i \in 1..Len(trials) :
              trials[i].ok => overall_cost <= trials[i].f

\* C10 witness: solve returned True with a best configuration that is not
\* the one of the last trial solve
C10_Witness ==
    /\ result = "True"
    /\ Len(trials) >= 2
    /\ trials[1].ok
    /\ overall_cost = trials[1].f
    /\ online[trials[Len(trials)].candidate]

\* The generators a list of flags has online
OnSet(flags) == {g \in Gen : flags[g]}

\* C11: the online set of the best configuration only shrinks, the best
\* configuration being the one the stages start from and commit to
\* (stage_online).  Before the baseline solve no step switches a generator
\* on; the first best configuration is the set online at the baseline
\* solve; from then on every trial, every current best and the final state
\* are inside the best configuration, a committing stage takes exactly one
\* generator out of it and no other step changes it.
C11_BestOnlyShrinks ==
    [][/\ (pc \in {"begin", "prepass", "baseline"} =>
              OnSet(online') \subseteq OnSet(online))
       /\ (pc = "baseline" /\ pc' = "stage" =>
              stage_online' = online)
       /\ (pc \in {"stage", "trial", "stage_end", "final"} =>
              /\ OnSet(online') \subseteq OnSet(stage_online)
              /\ OnSet(overall_online') \subseteq OnSet(stage_online)
              /\ OnSet(stage_online') \subseteq OnSet(stage_online)
              /\ IF pc = "stage_end" /\ pc' = "stage"
                 THEN Cardinality(OnSet(stage_online')) =
                          Cardinality(OnSet(stage_online)) - 1
                 ELSE stage_online' = stage_online)]_vars

\* C11 witness: solve returned True after a stage committed the shutdown
\* of a generator that was online at the baseline solve
C11_Witness ==
    /\ pc = "returned"
    /\ result = "True"
    /\ stage_cost < baseline_cost
    /\ \E g \in Gen : prepass_online[g] /\ ~online[g]

\* C13: for a non-empty list fair_max returns (idx, value) where value is
\* an element of x that no element exceeds and x[idx] equals value.
C13_FairMaxReturnsMaximum ==
    fm_pc = "returned" =>
        /\ fm_x # <<>>
        /\ fm_idx \in 1..Len(fm_x)
        /\ \E k \in 1..Len(fm_x) : fm_x[k] = fm_value
        /\ \A j \in 1..Len(fm_x) :
              FracLeq(fm_x[j][1], fm_x[j][2], fm_value[1], fm_value[2])
        /\ FracEq(fm_x[fm_idx][1], fm_x[fm_idx][2], fm_value[1], fm_value[2])

\* C13 witness: fair_max returned on a list whose maximum is neither its
\* first nor its only value
C13_Witness ==
    /\ fm_pc = "returned"
    /\ Len(fm_x) >= 2
    /\ fm_idx > 1
    /\ \E j \in 1..Len(fm_x) :
          ~FracEq(fm_x[j][1], fm_x[j][2], fm_value[1], fm_value[2])

\* C14: when the maximum of x is at two or more positions, each of them
\* is a possible idx of the call: the list the random choice is made from
\* holds every position of the maximum.
C14_EveryTiedPositionPossible ==
    fm_pc = "returned" =>
        \A k \in 1..Len(fm_x) :
            FracEq(fm_x[k][1], fm_x[k][2], fm_value[1], fm_value[2]) =>
                k \in fm_i

\* C12: with a deterministic OPF whose objective values differ between
\* configurations, solve ends with the same configuration and cost whatever
\* the order in which the candidates of each stage are tried.
C12_OrderIndependent ==
    ord_pc = "done" => Cardinality(ord_finals) = 1

----------------------------------------------------------------------------
(* Properties of DCOPFRoutine *)

\* The buses flagged slack
SlackBuses == {v \in Bus : bus_slack[v]}

\* C15: reference bus selection.  With more than one bus flagged slack the
\* step that builds the reference constraint raises and no later step of
\* the formulation is reached; with exactly one, the reference row has its
\* single non-zero entry in the column of that bus's angle; with none, in
\* the column of the first bus's angle.
C15_ReferenceBus ==
    [][/\ (dc_pc = "ref" =>
              IF Cardinality(SlackBuses) > 1
              THEN dc_pc' = "raised" /\ dc_error' = "ValueError"
              ELSE /\ dc_pc' = "mismatch"
                   /\ \E v \in Bus :
                         /\ dc_ref'.nz = {v}
                         /\ dc_x[v].kind = "v_phase" /\ dc_x[v].of = v
                         /\ IF SlackBuses = {} THEN v = 1
                            ELSE SlackBuses = {v})
       /\ (Cardinality(SlackBuses) > 1 =>
              dc_pc' \notin {"mismatch", "limits", "objective", "solve",
                             "returned"})]_vars

\* C15 witness: the reference row was built for the one slack bus, which is
\* not the first bus
C15_Witness ==
    /\ dc_pc = "mismatch"
    /\ SlackBuses = {NB}
    /\ dc_ref.nz = {NB}

\* Whether the online generators use both cost models
MixedCostModels ==
    \E g, h \in Gen :
        /\ gen_online[g] /\ gen_model[g] = "Polynomial"
        /\ gen_online[h] /\ gen_model[h] = "Piecewise Linear"

C17_WritesOnlyWhenOptimal ==
    /\ (net_fields # Previous =>
            /\ dc_pc = "returned"
            /\ dc_status = "optimal"
            /\ net_fields = Written)
    /\ (dc_status # "none" =>
            /\ dc_pc = "returned"
            /\ dc_qp_calls = 1
            /\ dc_status = "optimal" => net_fields = Written)

\* C17 witness: the call returned a solution that is not optimal
C17_Witness ==
    /\ dc_pc = "returned"
    /\ dc_status = "primal infeasible"

\* C18: the vector x holds an angle for every bus, then an active power for
\* every online generator, then, in linear mode, a cost for every online
\* generator, and is as long as every constraint block built is wide.
C18_DecisionVectorLayout ==
    dc_pc \in {"cost", "ref", "mismatch", "limits", "objective", "solve",
               "returned"} =>
        /\ Len(dc_x) = NB + NGen + NCost(dc_solver_type)
        /\ \A blk \in dc_blocks :
              blk[1] \in {"cost", "ref", "mismatch", "generation", "flow"} =>
                  blk[2] = Len(dc_x)

----------------------------------------------------------------------------
(* Properties of pdipm *)

Finite(b) == b[1] = "fin"

\* The classes row j has been put in
ClassesOf(j) ==
    {c \in {"ieq", "igt", "ilt", "ibx"} : j \in Range(ip_part[c])}

\* C19: after the split every row with a finite bound is in exactly one
\* class: ieq when both bounds are finite and less than the tolerance
\* apart, ibx when both are finite and more than the tolerance apart (one
\* of the two when exactly the tolerance apart), ilt when only the upper
\* bound is finite, igt when only the lower bound is; a row without a
\* finite bound is in no class; and Ai has nlt + ngt + 2 * nbx rows.
C19_RowPartition ==
    ip_pc \in {"start", "loop", "post", "returned"} =>
        /\ \A j \in Row :
              LET l == ip_ll[j]
                  u == ip_uu[j]
              IN  IF Finite(l) /\ Finite(u)
                  THEN IF Abs(u[2] - l[2]) < EPS THEN ClassesOf(j) = {"ieq"}
                       ELSE IF Abs(u[2] - l[2]) > EPS
                       THEN ClassesOf(j) = {"ibx"}
                       ELSE ClassesOf(j) \in {{"ieq"}, {"ibx"}}
                  ELSE IF Finite(u) THEN ClassesOf(j) = {"ilt"}
                  ELSE IF Finite(l) THEN ClassesOf(j) = {"igt"}
                  ELSE ClassesOf(j) = {}
        /\ Len(ip_part.Ai) =
              Len(ip_part.ilt) + Len(ip_part.igt) + 2 * Len(ip_part.ibx)

\* C20: the Newton loop makes at most max_it iterations; it goes on only
\* from an iterate that is not converged with the count below max_it; it
\* is left only to the code after it, and only when the iterate is
\* converged, when a failure test fired on an iterate that is not
\* converged, or when the count has reached max_it; and pdipm then returns
\* info = converged with the count and the four residuals in output.
C20_NewtonLoopExits ==
    [][/\ ip_i' <= ip_max_it
       /\ (ip_pc = "loop" =>
              /\ ip_pc' \in {"loop", "post"}
              /\ (ip_i' # ip_i =>
                      ~ip_converged /\ ip_i < ip_max_it /\ ip_i' = ip_i + 1)
              /\ (ip_pc' = "post" =>
                      \/ ip_converged
                      \/ ip_i >= ip_max_it
                      \/ ip_fail' # "none" /\ ~ip_converged'))
       /\ (ip_pc = "post" =>
              /\ ip_pc' = "returned"
              /\ ip_info' = ip_converged
              /\ ip_output' = [iterations |-> ip_i, residuals |-> Residuals])
      ]_vars

\* C23: every run of solve ends, by a return or by an exception; the main
\* loop enters at most as many stages as there are generators online after
\* the baseline solve, counted exactly: a stage under way is one more than
\* the generators committed offline so far, and a stage that does not stop
\* the loop commits one generator more offline.  The generators online
\* after the baseline solve are those of the flags the pre-pass left,
\* which the baseline solve does not change.
C23_TerminatesWithinOnlineCount ==
    /\ <>(pc \in {"returned", "raised"})
    /\ [](main_stages <= Cardinality(OnSet(prepass_online)))
    /\ [](pc \in {"trial", "stage_end"} =>
            main_stages + Cardinality(OnSet(stage_online))
                = Cardinality(OnSet(prepass_online)) + 1)
    /\ [][pc = "stage_end" /\ pc' = "stage" =>
            /\ OnSet(stage_online') \subseteq OnSet(stage_online)
            /\ Cardinality(OnSet(stage_online'))
                  = Cardinality(OnSet(stage_online)) - 1
            /\ main_stages
                  = Cardinality(OnSet(prepass_online))
                      - Cardinality(OnSet(stage_online'))]_vars

\* C23 witness: solve returned after as many main-loop stages as there were
\* generators online after the baseline solve, more than one
C23_Witness ==
    /\ pc = "returned"
    /\ result = "True"
    /\ main_stages = Cardinality(OnSet(prepass_online))
    /\ main_stages > 1

\* C24: when a stage of the main loop starts, the mu_p_min on the generators
\* are those of the solve of the stage best: of the baseline solve for the
\* first stage, and afterwards of the trial that won the previous stage,
\* whose candidate is the generator the stage best has just lost.
C24_CandidatesReadStageBestPrices ==
    pc = "stage" =>
        IF trials = <<>>
        THEN last_solve = [site |-> "baseline", on |-> stage_online,
                           ok |-> TRUE]
        ELSE \* the last trial that succeeded wrote the multipliers the
             \* generators carry
             \E k \in 1..Len(trials) :
                 /\ trials[k].ok
                 /\ \A j \in (k + 1)..Len(trials) : ~trials[j].ok
                 /\ ~stage_online[trials[k].candidate]

-----------------------------------------------------------------------------
(* Properties of pdipm, continued *)

\* C21: pdipm returns converged = True exactly when all four residuals were
\* strictly below their tolerances at the last evaluation it made.  The
\* test is made on the start point too, before any iteration; once it
\* passes, no further iteration or evaluation is made, so a start point
\* that passes is returned with an iteration count of 0.
C21_ConvergedIffAllBelow ==
    /\ [](ip_pc = "returned" =>
            /\ ip_info = (ip_above = {})
            /\ ip_output.iterations = ip_i)
    /\ [][ip_pc = "start" /\ ip_pc' = "loop" =>
            ip_i' = 0 /\ ip_converged' = (ip_above' = {})]_vars
    /\ [][ip_pc = "loop" /\ ip_i' # ip_i /\ ip_pc' # "raised" =>
            ip_converged' = (ip_above' = {})]_vars
    /\ [][ip_converged =>
            ip_i' = ip_i /\ ip_above' = ip_above /\ ip_converged']_vars

\* C21 witness: the start point passed the test and pdipm returned
\* converged after 0 iterations
C21_Witness ==
    /\ ip_pc = "returned"
    /\ ip_info
    /\ ip_above = {}
    /\ ip_output.iterations = 0
    /\ ip_max_it > 0

\* The multiplier of the row of Ai taken from row j of [I; A] with the
\* given sign (1: the row "<= upper", -1: the row ">= lower"), 0 if Ai has
\* no such row
MuOfRow(sign, j) ==
    IF \E r \in 1..Len(ip_part.Ai) : ip_part.Ai[r] = <<sign, j>>
    THEN ip_mu[CHOOSE r \in 1..Len(ip_part.Ai) : ip_part.Ai[r] = <<sign, j>>]
    ELSE 0

\* The multiplier lam of the equality row taken from row j of [I; A]
LamOfRow(j) ==
    ip_lam[CHOOSE k \in 1..Len(ip_part.ieq) : ip_part.ieq[k] = j]

\* The lower and upper multipliers returned for row j of [I; A]: the first
\* nx rows are returned as "lower" and "upper", the others as "mu_l" and
\* "mu_u"
ReturnedLower(j) ==
    IF j <= ip_nx THEN ip_lmbda.lower[j] ELSE ip_lmbda.mu_l[j - ip_nx]

ReturnedUpper(j) ==
    IF j <= ip_nx THEN ip_lmbda.upper[j] ELSE ip_lmbda.mu_u[j - ip_nx]

C22_StepKeepsPositive ==
    [][sl_pc = "loop" /\ sl_pc' = "updated" =>
          LET Positive(a) == FLess(FInt(0), a)
              InUnit(a) == Positive(a) /\ ~FLess(FInt(1), a)
              \* alpha is 1, or xi times the ratio v[j] / -d[j] of a
              \* component the direction d decreases
              FromDirection(alpha, v, d) ==
                  \/ alpha = FInt(1)
                  \/ \E j \in Ineq :
                        /\ FLess(d[j], FInt(0))
                        /\ alpha = FMul(Xi, FDiv(v[j], FNeg(d[j])))
          IN
          /\ \A j \in Ineq : Positive(sl_z[j]) /\ Positive(sl_mu[j])
          /\ \A j \in Ineq : Positive(sl_z'[j]) /\ Positive(sl_mu'[j])
          /\ InUnit(sl_alphap')
          /\ InUnit(sl_alphad')
          /\ FromDirection(sl_alphap', sl_z, sl_dz')
          /\ FromDirection(sl_alphad', sl_mu, sl_dmu')
          /\ \A j \in Ineq :
                /\ sl_z'[j] = FAdd(sl_z[j], FMul(sl_alphap', sl_dz'[j]))
                /\ sl_mu'[j] = FAdd(sl_mu[j], FMul(sl_alphad', sl_dmu'[j]))
     ]_vars

\* C22 witness: the first update after the initialisation was made with
\* two different step lengths, both below 1
C22_Witness ==
    /\ sl_pc = "updated"
    /\ sl_i = 1
    /\ FLess(sl_alphap, FInt(1))
    /\ FLess(sl_alphad, sl_alphap)
    /\ \A j \in Ineq : FLess(FInt(0), sl_z[j]) /\ FLess(FInt(0), sl_mu[j])

\* C25: after the initialisation z[j] is -g[j] where g[j] < -z0 and z0
\* elsewhere, and mu[j] is gamma / z[j] where that is above z0 and z0
\* elsewhere: mu[j] is z0 wherever z[j] was set to -g[j].
C25_InitialSlackAndMultiplier ==
    sl_pc = "loop" /\ sl_i = 0 =>
        \A j \in Ineq :
            /\ sl_z[j] = IF sl_g[j] < 0 - Z0 THEN FInt(0 - sl_g[j])
                         ELSE FInt(Z0)
            /\ sl_mu[j] = IF FLess(FInt(Z0), FDiv(Gamma0, sl_z[j]))
                          THEN FDiv(Gamma0, sl_z[j])
                          ELSE FInt(Z0)
            /\ (sl_g[j] < 0 - Z0 => sl_mu[j] = FInt(Z0))

-----------------------------------------------------------------------------
(* Properties of DCOPFRoutine, continued *)

\* The series susceptance 1 / x of a branch, a reactance of 1e12 standing
\* for a reactance of zero
SeriesSusceptance(x) ==
    IF x # 0 THEN Plain(Frac(1, x)) ELSE [p |-> FInt(0), big |-> 0, tiny |-> 1]

\* -b * s * pi / 180 for online branch k, in units of pi / 180
ShiftInjection(k) ==
    Times(0 - OnlineBranches[k].phase_shift,
          SeriesSusceptance(OnlineBranches[k].x))

RECURSIVE SumOfInjections(_)
SumOfInjections(K) ==
    IF K = {} THEN Plain(FInt(0))
    ELSE LET k == CHOOSE j \in K : TRUE
         IN  Plus(ShiftInjection(k), SumOfInjections(K \ {k}))

\* C28: the source-end injection of every online branch is
\* -b * s * pi / 180 with b = 1 / x, and the injection at a bus is the sum
\* of these terms over the online branches that leave the bus minus their
\* sum over the online branches that reach it.
C28_PhaseShiftInjection ==
    /\ br_pc \in {"bus", "done"} =>
          \A k \in 1..Len(OnlineBranches) :
              br_source_inj[k] = ShiftInjection(k)
    /\ br_pc = "done" =>
          \A v \in Bus :
              LET BranchesAt(end) ==
                      {k \in 1..Len(OnlineBranches) :
                          OnlineBranches[k][end] = v}
              IN  br_bus_inj[v] =
                      Plus(SumOfInjections(BranchesAt("source_bus")),
                           Times(0 - 1,
                                 SumOfInjections(BranchesAt("target_bus"))))

\* C27: the right-hand side of the reference-angle equality is the entry
\* of the reference bus in the initial decision vector, its angle guess in
\* the unit of the angle block.  The float b equals r[1] / r[2] times pi
\* only when both are zero.
C27_ReferenceRightHandSide ==
    dc_ref.nz # {} =>
        \A v \in dc_ref.nz :
            /\ dc_x[v].kind = "v_phase"
            /\ dc_x[v].of = v
            /\ dc_ref.b = 0 /\ dc_x[v].val[1] = 0

\* C29: the generator index is the same in every block.  For every j the
\* generator column j of the power-balance matrix has its entry in the row
\* of the bus of the j-th online generator, rows j and j + n_generators of
\* the generation limits, entry j of the cost vectors and the values
\* written back are those of the j-th online generator; and the
\* formulation is built whatever the order of the generators over the
\* buses and with offline generators attached.
C29_GeneratorIndexConsistent ==
    /\ dc_error # "IndexError"
    /\ \A j \in 1..Len(dc_index.incidence) :
          /\ j <= NGen
          /\ dc_index.incidence[j] = gen_bus[OnlineGenerators[j]]
    /\ dc_index.limits \in {<<>>, OnlineGenerators}
    /\ dc_index.cost \in {<<>>, OnlineGenerators}
    /\ dc_index.written \in {<<>>, OnlineGenerators}
    /\ (dc_pc \in {"limits", "objective", "solve", "returned"} =>
          Len(dc_index.incidence) = NGen)

\* C30: with no online generator on a polynomial cost model the linear
\* path is selected and the call ends in the NotImplementedError of the
\* objective assembly (or earlier in the ValueError of a second slack
\* bus), the formulation up to the limits being built; the solver is not
\* called and nothing is written; the solver is called only when every
\* online generator has a polynomial cost model.
C30_LinearPathNotImplemented ==
    /\ ("Polynomial" \notin Models /\ dc_pc # "check" =>
          /\ dc_solver_type = "linear"
          /\ dc_qp_calls = 0
          /\ net_fields = Previous
          /\ dc_pc \notin {"solve", "returned"}
          /\ (dc_pc = "raised" =>
                \/ dc_error = "ValueError" /\ TooManyRefs(RefIdxs)
                \/ /\ dc_error = "NotImplementedError"
                   /\ \E n \in 0..(NB + 2 * NG) :
                         <<"generation", n>> \in dc_blocks))
    /\ (dc_qp_calls > 0 \/ dc_pc \in {"solve", "returned"} =>
          Models = {"Polynomial"})

====
